---- MODULE Spec2Model ----
(***************************************************************************)
(* A model of pics2html.py, a static photo-gallery generator: scan the     *)
(* pictures directory, build one record per source photo, write a reduced  *)
(* "-small" companion next to each wide photo, sort, paginate and render.  *)
(*                                                                         *)
(* Python strings are modelled as sequences of one-character strings, so   *)
(* that slicing, partitioning, substring tests and comparisons are         *)
(* computed the way the code computes them.                                *)
(***************************************************************************)
EXTENDS Integers, Sequences, FiniteSets, TLC

VARIABLES
    disk,         \* output/pictures: path -> image file
    pagination,   \* the page size read by create_pagination (PAGINATION)
    pc,           \* position of the run
    todo,         \* paths of the glob not yet visited by analyze_pictures
    pictures,     \* the list of picture records
    pages,        \* result of create_pagination
    written,      \* html/xml files written by the run: name -> content
    reduceCalls,  \* calls of reduce_image made by the run
    wroteSmall,   \* companions saved by the run: path -> source and image
    failed,       \* the path at which the run raised ("" when it has not)
    prevSmall,    \* companions on disk when the previous scan returned
    prevCount,    \* number of records the previous scan returned
    exif,         \* raw EXIF value handed to a formatter
    cleaned       \* the formatter's result

vars == <<disk, pagination, pc, todo, pictures, pages, written, reduceCalls,
          wroteSmall, failed, prevSmall, prevCount, exif, cleaned>>

(***************************************************************************)
(* Strings                                                                 *)
(***************************************************************************)
Digits == <<"0", "1", "2", "3", "4", "5", "6", "7", "8", "9">>

\* str(n) for an int n >= 0
RECURSIVE IntStr(_)
IntStr(n) == IF n < 10 THEN <<Digits[n + 1]>>
             ELSE IntStr(n \div 10) \o <<Digits[(n % 10) + 1]>>

DigitVal(c) == (CHOOSE k \in 1..10 : Digits[k] = c) - 1

\* int(s) for a string of decimal digits (leading zeros allowed)
RECURSIVE StrInt(_)
StrInt(s) == IF Len(s) = 0 THEN 0
             ELSE 10 * StrInt(SubSeq(s, 1, Len(s) - 1)) + DigitVal(s[Len(s)])

\* ord(c) for the characters a sort key is made of
Ord(c) == CASE c = " " -> 32
            [] c = "(" -> 40
            [] c = ")" -> 41
            [] c = ":" -> 58
            [] c = "C" -> 67
            [] c = "T" -> 84
            [] c = "U" -> 85
            [] OTHER -> 48 + DigitVal(c)

\* a < b on Python strings: lexicographic on code points
RECURSIVE StrLess(_, _)
StrLess(a, b) == IF Len(b) = 0 THEN FALSE
                 ELSE IF Len(a) = 0 THEN TRUE
                 ELSE IF a[1] # b[1] THEN Ord(a[1]) < Ord(b[1])
                 ELSE StrLess(Tail(a), Tail(b))

\* sub in s
Contains(sub, s) ==
    \E i \in 1..(Len(s) - Len(sub) + 1) : SubSeq(s, i, i + Len(sub) - 1) = sub

\* s[k:]
From(s, k) == SubSeq(s, k + 1, Len(s))

\* s.rpartition(c) for a one-character separator
Rpartition(s, c) ==
    LET at == {i \in 1..Len(s) : s[i] = c}
    IN  IF at = {} THEN <<<<>>, <<>>, s>>
        ELSE LET i == CHOOSE j \in at : \A k \in at : k <= j
             IN  <<SubSeq(s, 1, i - 1), <<c>>, SubSeq(s, i + 1, Len(s))>>

\* s.partition(c) for a one-character separator
Partition(s, c) ==
    LET at == {i \in 1..Len(s) : s[i] = c}
    IN  IF at = {} THEN <<s, <<>>, <<>>>>
        ELSE LET i == CHOOSE j \in at : \A k \in at : j <= k
             IN  <<SubSeq(s, 1, i - 1), <<c>>, SubSeq(s, i + 1, Len(s))>>

\* s.replace(c, "")
Remove(s, c) == SelectSeq(s, LAMBDA x : x # c)

\* s.replace(c, d)
Replace(s, c, d) == [i \in 1..Len(s) |-> IF s[i] = c THEN d ELSE s[i]]

\* s.split(c)
RECURSIVE Split(_, _)
Split(s, c) == LET p == Partition(s, c)
               IN  IF p[2] = <<>> THEN <<s>> ELSE <<p[1]>> \o Split(p[3], c)

(***************************************************************************)
(* Settings                                                                *)
(***************************************************************************)
SMALL_IMAGE_WORD == <<"s", "m", "a", "l", "l">>
MAX_HORIZONTAL_SIZE == 800
\* the page size as shipped; runs below also use smaller ones
PAGINATION == 10
OUTPUT_DIR == <<"o", "u", "t", "p", "u", "t">>
PICTURES_DIR == OUTPUT_DIR \o <<"/", "p", "i", "c", "t", "u", "r", "e", "s", "/">>
SITE_URL == <<"h", "t", "t", "p", "s", ":", "/", "/", "p", "x", ".",
              "c", "h", "o", "w", "n", ".", "m", "e">>
HtmlExt == <<".", "h", "t", "m", "l">>

(***************************************************************************)
(* Metadata formatting                                                     *)
(*                                                                         *)
(* An EXIF rational is [n, d, exact]: the value n/d, held either as an     *)
(* exact rational (exact = TRUE, the imaging library's rational type,      *)
(* whose str() is that of its float value and whose arithmetic is exact)   *)
(* or as a float (exact = FALSE).  The operators below are used on the     *)
(* values n/1 and 1/d with d <= 48, for which str() of the float is the    *)
(* decimal expansion cut at 16 digits and 1/(1/d) is d without rounding.   *)
(***************************************************************************)
RECURSIVE FracDigits(_, _, _)
FracDigits(r, d, k) ==
    IF r = 0 \/ k = 0 THEN <<>>
    ELSE <<Digits[((10 * r) \div d) + 1]>> \o FracDigits((10 * r) % d, d, k - 1)

\* str(n / d) of a float
FloatStr(n, d) ==
    IntStr(n \div d) \o <<".">>
        \o (IF n % d = 0 THEN <<"0">> ELSE FracDigits(n % d, d, 16))

\* str(Fraction(n, d)) with n/d in lowest terms
FractionStr(n, d) == IF d = 1 THEN IntStr(n) ELSE IntStr(n) \o <<"/">> \o IntStr(d)

\* f"{1 / ET}"
ReciprocalStr(ET) == IF ET.exact THEN FractionStr(ET.d, ET.n) ELSE FloatStr(ET.d, ET.n)

clean_exposure_time_keep_zero(ET) ==
    IF 10 * ET.n >= 3 * ET.d
    THEN FloatStr(ET.n, ET.d) \o <<"s">>
    ELSE <<"1", "/">> \o ReciprocalStr(ET) \o <<"s">>

\* ET >= 0.3 is n/d >= 3/10 on the values above
clean_exposure_time(ET) ==
    IF 10 * ET.n >= 3 * ET.d
    THEN LET str == FloatStr(ET.n, ET.d)
         IN  IF From(str, Len(str) - 2) = <<".", "0">>
             THEN IntStr(ET.n \div ET.d) \o <<"s">>
             ELSE str \o <<"s">>
    ELSE <<"1", "/">> \o ReciprocalStr(ET) \o <<"s">>

(***************************************************************************)
(* Image files.  An image is [readable, w, h, px, exif]: whether the file  *)
(* can be decoded, its size, an identifier of its pixels, and its EXIF     *)
(* data, a function from the names of the fields it holds to their values. *)
(***************************************************************************)
RequiredFields == {"DateTime", "ExposureTime"}
NoExif == [f \in {} |-> 0]

\* get_exif returns (rather than raises)
HasExif(img) == img.readable /\ RequiredFields \subseteq DOMAIN img.exif

\* The code divides in floating point; on the sizes of the photos below
\* (1600x1000, 800x600) that gives these integers.
calculate_reduced_size(size) ==
    <<(size[1] * MAX_HORIZONTAL_SIZE) \div size[1],
      (size[2] * MAX_HORIZONTAL_SIZE) \div size[1]>>

\* the image that resize() and save() leave in the companion file
Resized(img) ==
    LET new_size == calculate_reduced_size(<<img.w, img.h>>)
    IN  [w |-> new_size[1], h |-> new_size[2], readable |-> TRUE,
         px |-> img.px, exif |-> NoExif]

small_picture_path(picture_path) ==
    LET p == Rpartition(picture_path, ".")
    IN  p[1] \o <<"-">> \o SMALL_IMAGE_WORD \o <<".">> \o p[3]

\* reduce_image goes on to resize and save (it does not return early)
Saves(img) == ~(img.w < MAX_HORIZONTAL_SIZE)

\* reduce_image: the files after the call
reduce_image(files, picture_path, new_picture_path) ==
    IF ~Saves(files[picture_path]) THEN files
    ELSE (new_picture_path :> Resized(files[picture_path])) @@ files

\* analyze_picture on a file whose EXIF data is complete.  The fields copied
\* verbatim from the EXIF data that nothing below reads (model, lens_model,
\* iso, aperture, focal_length) are left out of the record.
analyze_picture(full_path, img) ==
    LET picture_path == From(full_path, Len(OUTPUT_DIR) + 1)
        name == Rpartition(picture_path, "/")[3]
    IN  [date |-> img.exif.DateTime \o <<" ", "(", "U", "T", "C", ")">>,
         exposure_time |-> clean_exposure_time(img.exif.ExposureTime),
         title |-> Partition(From(name, 11), ".")[1],
         path |-> picture_path,
         small_path |-> small_picture_path(picture_path),
         html_path |-> name]

(***************************************************************************)
(* Ordering                                                                *)
(***************************************************************************)
\* the sort key of main
SortKey(picture) == Remove(Remove(picture.date, ":"), " ")

\* list.sort(reverse=True, key=SortKey): stable, largest key first
RECURSIVE InsertDesc(_, _)
InsertDesc(sorted, x) ==
    IF sorted = <<>> THEN <<x>>
    ELSE IF StrLess(SortKey(sorted[1]), SortKey(x)) THEN <<x>> \o sorted
    ELSE <<sorted[1]>> \o InsertDesc(Tail(sorted), x)

RECURSIVE InsertAsc(_, _)
InsertAsc(sorted, x) ==
    IF sorted = <<>> THEN <<x>>
    ELSE IF StrLess(SortKey(x), SortKey(sorted[1])) THEN <<x>> \o sorted
    ELSE <<sorted[1]>> \o InsertAsc(Tail(sorted), x)

RECURSIVE SortAscending(_)
SortAscending(s) ==
    IF s = <<>> THEN <<>>
    ELSE InsertAsc(SortAscending(SubSeq(s, 1, Len(s) - 1)), s[Len(s)])

RECURSIVE SortDescending(_)
SortDescending(s) ==
    IF s = <<>> THEN <<>>
    ELSE InsertDesc(SortDescending(SubSeq(s, 1, Len(s) - 1)), s[Len(s)])

SortPictures(s) == SortDescending(s)

\* main's parse of a record's date into the arguments of datetime.datetime
ParseDate(date) ==
    LET fields == Split(Replace(SubSeq(date, 1, Len(date) - 6), " ", ":"), ":")
    IN  [i \in 1..Len(fields) |-> StrInt(fields[i])]

(***************************************************************************)
(* Pagination and index pages                                              *)
(***************************************************************************)
\* pics[offset : offset + size] (0-based, clipped at the end of the list)
Slice(pics, offset, size) ==
    SubSeq(pics, offset + 1,
           IF offset + size < Len(pics) THEN offset + size ELSE Len(pics))

create_pagination_exact(pics, P) ==
    [k \in 1..((Len(pics) + P - 1) \div P) |-> Slice(pics, (k - 1) * P, P)]

create_pagination_overlap(pics, P) ==
    [k \in 1..((Len(pics) \div P) + 1) |-> Slice(pics, (k - 1) * (P - 1), P)]

create_pagination(pics, P) ==
    [k \in 1..((Len(pics) \div P) + 1) |-> Slice(pics, (k - 1) * P, P)]

PaginationDict_sentinel(rank, total) ==
    ("current" :> rank + 1) @@ ("total" :> total)
        @@ ("previous" :> rank - 1) @@ ("next" :> rank + 1)

\* the pagination dict create_html_indexes builds for the page of 0-based rank
PaginationDict(rank, total) ==
    LET base == ("current" :> rank + 1) @@ ("total" :> total)
        prev == IF rank > 0 THEN ("previous" :> rank - 1) ELSE <<>>
        next == IF rank # total - 1 THEN ("next" :> rank + 1) ELSE <<>>
    IN  base @@ prev @@ next

IndexName(rank) ==
    OUTPUT_DIR \o <<"/", "i", "n", "d", "e", "x">>
        \o (IF rank = 0 THEN <<>> ELSE IntStr(rank)) \o HtmlExt

\* create_html_indexes: the files it writes, the later page of a name winning
RECURSIVE create_html_indexes(_, _)
create_html_indexes(pgs, n) ==
    IF n = 0 THEN <<>>
    ELSE (IndexName(n - 1) :> [kind |-> "index",
                               pagination |-> PaginationDict(n - 1, Len(pgs)),
                               pictures |-> pgs[n]])
         @@ create_html_indexes(pgs, n - 1)

AllName == OUTPUT_DIR \o <<"/", "a", "l", "l">> \o HtmlExt
FeedName == OUTPUT_DIR \o <<"/", "f", "e", "e", "d", ".", "x", "m", "l">>

\* create_html_all
create_html_all(pics) == AllName :> [kind |-> "all", pictures |-> pics]

PictureNameByTitle(picture) == OUTPUT_DIR \o <<"/">> \o picture.title \o HtmlExt

\* the file create_html_picture writes
PictureName(picture) == OUTPUT_DIR \o <<"/">> \o picture.html_path \o HtmlExt

\* main's loop over the pictures: create_html_picture for the first n
RECURSIVE create_html_pictures(_, _)
create_html_pictures(pics, n) ==
    IF n = 0 THEN <<>>
    ELSE (PictureName(pics[n]) :> [kind |-> "picture", picture |-> pics[n]])
         @@ create_html_pictures(pics, n - 1)

\* the feed main fills and writes
FeedItem(picture) ==
    [title |-> picture.title,
     link |-> SITE_URL \o <<"/">> \o picture.html_path \o HtmlExt,
     pubdate |-> ParseDate(picture.date),
     description |-> picture.title]

WriteFeed(pics) ==
    FeedName :> [kind |-> "feed", items |-> [i \in 1..Len(pics) |-> FeedItem(pics[i])]]

(***************************************************************************)
(* The run of main                                                         *)
(***************************************************************************)
\* analyze_pictures leaves a globbed path out
Skipped_equal(picture_path) == SMALL_IMAGE_WORD = picture_path

Skipped(picture_path) == Contains(SMALL_IMAGE_WORD, picture_path)

\* analyze_pictures calls reduce_image for a picture
NeedsReduce_always(files, picture_path) == TRUE

NeedsReduce(files, picture_path) ==
    small_picture_path(picture_path) \notin DOMAIN files

\* where the run is after get_exif raises: nothing between it and the
\* interpreter's top level catches, so main ends there
PcAfterRaise_continue == "scan"

PcAfterRaise == "aborted"

\* a path of the shape small_picture_path gives
IsCompanion(path) == Contains(<<"-">> \o SMALL_IMAGE_WORD \o <<".">>, path)

Companions(files) == [p \in {q \in DOMAIN files : IsCompanion(q)} |-> files[p]]

\* main starts: glob the pictures directory
StartRun ==
    /\ pc \in {"idle", "done", "aborted"}
    /\ pc' = "scan"
    /\ todo' = DOMAIN disk
    /\ pictures' = <<>>
    /\ pages' = <<>>
    /\ written' = <<>>
    /\ reduceCalls' = {}
    /\ wroteSmall' = <<>>
    /\ failed' = <<>>
    /\ UNCHANGED <<disk, pagination, prevSmall, prevCount, exif, cleaned>>

\* one iteration of the loop of analyze_pictures, on any path left
AnalyzeNext ==
    /\ pc = "scan"
    /\ \E picture_path \in todo :
        /\ todo' = todo \ {picture_path}
        /\ IF Skipped(picture_path)
           THEN UNCHANGED <<pc, pictures, disk, reduceCalls, wroteSmall, failed>>
           ELSE IF ~HasExif(disk[picture_path])
           THEN /\ pc' = PcAfterRaise
                /\ failed' = picture_path
                /\ UNCHANGED <<pictures, disk, reduceCalls, wroteSmall>>
           ELSE /\ pictures' = Append(pictures,
                                      analyze_picture(picture_path, disk[picture_path]))
                /\ UNCHANGED <<pc, failed>>
                /\ IF NeedsReduce(disk, picture_path)
                   THEN LET small == small_picture_path(picture_path)
                        IN  /\ disk' = reduce_image(disk, picture_path, small)
                            /\ reduceCalls' = reduceCalls \cup
                                 {[path |-> picture_path, had |-> small \in DOMAIN disk]}
                            /\ wroteSmall' =
                                 IF Saves(disk[picture_path])
                                 THEN (small :> [source |-> picture_path,
                                                 image |-> disk'[small]]) @@ wroteSmall
                                 ELSE wroteSmall
                   ELSE UNCHANGED <<disk, reduceCalls, wroteSmall>>
    /\ UNCHANGED <<pagination, pages, written, prevSmall, prevCount, exif, cleaned>>

\* analyze_pictures returns its list
ScanReturns ==
    /\ pc = "scan"
    /\ todo = {}
    /\ pc' = "scanned"
    /\ UNCHANGED <<disk, pagination, todo, pictures, pages, written, reduceCalls,
                   wroteSmall, failed, prevSmall, prevCount, exif, cleaned>>

\* the rest of main: sort, paginate, write every page and the feed
Render ==
    /\ pc = "scanned"
    /\ LET sorted == SortPictures(pictures)
           pgs == create_pagination(sorted, pagination)
       IN  /\ pictures' = sorted
           /\ pages' = pgs
           /\ written' = WriteFeed(sorted)
                           @@ create_html_pictures(sorted, Len(sorted))
                           @@ create_html_all(sorted)
                           @@ create_html_indexes(pgs, Len(pgs))
    /\ pc' = "done"
    /\ prevSmall' = Companions(disk)
    /\ prevCount' = Len(pictures)
    /\ UNCHANGED <<disk, pagination, todo, reduceCalls, wroteSmall, failed,
                   exif, cleaned>>

Next == StartRun \/ AnalyzeNext \/ ScanReturns \/ Render

(***************************************************************************)
(* The pictures directory before the first run of the model                *)
(***************************************************************************)
Stamp1 == <<"2", "0", "1", "4", ":", "1", "2", ":", "2", "7", " ",
            "1", "5", ":", "4", "3", ":", "5", "5">>
Stamp2 == <<"2", "0", "1", "4", ":", "1", "2", ":", "2", "8", " ",
            "0", "9", ":", "0", "0", ":", "0", "0">>

Photo(w, h, px, stamp, n, d) ==
    [readable |-> TRUE, w |-> w, h |-> h, px |-> px,
     exif |-> [DateTime |-> stamp,
               ExposureTime |-> [n |-> n, d |-> d, exact |-> TRUE]]]

Wide == Photo(1600, 1000, 1, Stamp1, 1, 250)
Narrow == Photo(600, 400, 2, Stamp2, 2, 1)
AtLimit == Photo(800, 600, 3, Stamp1, 1, 2)
\* a photo whose EXIF data lacks ExposureTime
NoExposure == [readable |-> TRUE, w |-> 1600, h |-> 1000, px |-> 4,
               exif |-> [DateTime |-> Stamp2]]
\* a file that cannot be decoded
Broken == [readable |-> FALSE, w |-> 0, h |-> 0, px |-> 5, exif |-> NoExif]

Photos == {Wide, Narrow, AtLimit, NoExposure, Broken}

PathA == PICTURES_DIR \o <<"a", ".", "j", "p", "g">>
PathB == PICTURES_DIR \o <<"b", ".", "j", "p", "g">>
PathC == PICTURES_DIR \o <<"c", ".", "j", "p", "g">>
\* a source photo whose own name holds the word "small"
PathS == PICTURES_DIR \o <<"s", "m", "a", "l", "l", "c", "a", "t", ".", "j", "p", "g">>

\* a file that is there (a one-element set) or not (the empty set)
Entry(path, opt) == [p \in {path : x \in opt} |-> CHOOSE x \in opt : TRUE]
Maybe(S) == {{}} \cup {{x} : x \in S}

\* companions left by earlier runs, possibly of a source replaced since
OldCompanions == {Resized(Wide), Resized(AtLimit)}

Directories ==
    {Entry(PathA, a) @@ Entry(small_picture_path(PathA), ca)
       @@ Entry(PathB, b) @@ Entry(small_picture_path(PathB), cb)
       @@ Entry(PathC, c) @@ Entry(PathS, s) :
        a \in Maybe(Photos \ {Broken}), ca \in Maybe(OldCompanions),
        b \in Maybe(Photos \ {NoExposure}), cb \in Maybe(OldCompanions),
        c \in Maybe({Narrow}), s \in Maybe({Wide, Broken})}

MaxPageSize == 1
PipelinePageSizes == (1..MaxPageSize) \cup {PAGINATION}

NoExposureTime == [n |-> 1, d |-> 1, exact |-> TRUE]

Init ==
    /\ disk \in Directories
    /\ pagination \in PipelinePageSizes
    /\ pc = "idle"
    /\ todo = {}
    /\ pictures = <<>>
    /\ pages = <<>>
    /\ written = <<>>
    /\ reduceCalls = {}
    /\ wroteSmall = <<>>
    /\ failed = <<>>
    /\ prevSmall = <<>>
    /\ prevCount = -1
    /\ exif = NoExposureTime
    /\ cleaned = <<>>

Spec == Init /\ [][Next]_vars

(***************************************************************************)
(* create_pagination and create_html_indexes on lists of every length up   *)
(* to MaxPics, for page sizes 1..MaxPage and the shipped PAGINATION.       *)
(* Pictures are numbered by their place in the list.                       *)
(***************************************************************************)
MaxPics == 21
MaxPage == 6
PageSizes == (1..MaxPage) \cup {PAGINATION}

InitPage ==
    /\ \E N \in 0..MaxPics : pictures = [i \in 1..N |-> i]
    /\ pagination \in PageSizes
    /\ pc = "paginate"
    /\ disk = <<>>
    /\ todo = {}
    /\ pages = <<>>
    /\ written = <<>>
    /\ reduceCalls = {}
    /\ wroteSmall = <<>>
    /\ failed = <<>>
    /\ prevSmall = <<>>
    /\ prevCount = -1
    /\ exif = NoExposureTime
    /\ cleaned = <<>>

Paginate ==
    /\ pc = "paginate"
    /\ pages' = create_pagination(pictures, pagination)
    /\ pc' = "indexes"
    /\ UNCHANGED <<disk, pagination, todo, pictures, written, reduceCalls,
                   wroteSmall, failed, prevSmall, prevCount, exif, cleaned>>

WriteIndexes ==
    /\ pc = "indexes"
    /\ written' = create_html_indexes(pages, Len(pages))
    /\ pc' = "indexed"
    /\ UNCHANGED <<disk, pagination, todo, pictures, pages, reduceCalls,
                   wroteSmall, failed, prevSmall, prevCount, exif, cleaned>>

NextPage == Paginate \/ WriteIndexes

SpecPage == InitPage /\ [][NextPage]_vars

(***************************************************************************)
(* main's sort on the records of photos bearing any of a set of valid      *)
(* capture times.                                                          *)
(***************************************************************************)
MaxSortLen == 3

Pad2(n) == <<Digits[(n \div 10) + 1], Digits[(n % 10) + 1]>>
Pad4(n) == Pad2(n \div 100) \o Pad2(n % 100)

\* "YYYY:MM:DD HH:MM:SS" as cameras write it
Stamp(t) ==
    Pad4(t[1]) \o <<":">> \o Pad2(t[2]) \o <<":">> \o Pad2(t[3]) \o <<" ">>
        \o Pad2(t[4]) \o <<":">> \o Pad2(t[5]) \o <<":">> \o Pad2(t[6])

CaptureTimes ==
    {<<y, m, t[1], t[2], t[3], t[4]>> :
        y \in {1999, 2014}, m \in {9, 12},
        t \in {<<27, 9, 0, 0>>, <<27, 15, 43, 55>>, <<28, 9, 0, 0>>}}

SortPath(i) == PICTURES_DIR \o IntStr(i) \o <<".", "j", "p", "g">>

InitSort ==
    /\ \E k \in 0..MaxSortLen : \E ts \in [1..k -> CaptureTimes] :
         pictures = [i \in 1..k |->
                        analyze_picture(SortPath(i),
                                        Photo(1600, 1000, i, Stamp(ts[i]), 1, 250))]
    /\ pagination = PAGINATION
    /\ pc = "sort"
    /\ disk = <<>>
    /\ todo = {}
    /\ pages = <<>>
    /\ written = <<>>
    /\ reduceCalls = {}
    /\ wroteSmall = <<>>
    /\ failed = <<>>
    /\ prevSmall = <<>>
    /\ prevCount = -1
    /\ exif = NoExposureTime
    /\ cleaned = <<>>

Sort ==
    /\ pc = "sort"
    /\ pictures' = SortPictures(pictures)
    /\ pc' = "sorted"
    /\ UNCHANGED <<disk, pagination, todo, pages, written, reduceCalls,
                   wroteSmall, failed, prevSmall, prevCount, exif, cleaned>>

NextSort == Sort

SpecSort == InitSort /\ [][NextSort]_vars

(***************************************************************************)
(* clean_exposure_time on the exposures n/1 and 1/d                        *)
(***************************************************************************)
MaxNum == 12
MaxDen == 40

Exposures ==
    {[n |-> n, d |-> 1, exact |-> e] : n \in 1..MaxNum, e \in BOOLEAN}
        \cup {[n |-> 1, d |-> d, exact |-> e] : d \in 2..MaxDen, e \in BOOLEAN}

InitFormat ==
    /\ exif \in Exposures
    /\ cleaned = <<>>
    /\ pc = "format"
    /\ pagination = PAGINATION
    /\ disk = <<>>
    /\ todo = {}
    /\ pictures = <<>>
    /\ pages = <<>>
    /\ written = <<>>
    /\ reduceCalls = {}
    /\ wroteSmall = <<>>
    /\ failed = <<>>
    /\ prevSmall = <<>>
    /\ prevCount = -1

Format ==
    /\ pc = "format"
    /\ cleaned' = clean_exposure_time(exif)
    /\ pc' = "formatted"
    /\ UNCHANGED <<disk, pagination, todo, pictures, pages, written, reduceCalls,
                   wroteSmall, failed, prevSmall, prevCount, exif>>

NextFormat == Format

SpecFormat == InitFormat /\ [][NextFormat]_vars

(***************************************************************************)
(* Properties                                                              *)
(***************************************************************************)
RECURSIVE Flatten(_)
Flatten(ss) == IF ss = <<>> THEN <<>> ELSE ss[1] \o Flatten(Tail(ss))

Elements(seq) == {seq[i] : i \in 1..Len(seq)}

\* datetime a < datetime b: the first differing field decides
RECURSIVE ChronoLess(_, _)
ChronoLess(a, b) ==
    IF a = <<>> \/ b = <<>> THEN FALSE
    ELSE IF a[1] # b[1] THEN a[1] < b[1]
    ELSE ChronoLess(Tail(a), Tail(b))

\* C1: the pages create_pagination returns, concatenated in order, are the
\* input list, and every picture is in exactly one page.
PagesConcatenateToInput ==
    pc \in {"indexes", "indexed"} =>
        /\ Flatten(pages) = pictures
        /\ \A x \in Elements(pictures) :
             Cardinality({k \in 1..Len(pages) : x \in Elements(pages[k])}) = 1

PagesConcatenateWitness ==
    /\ pc = "indexes"
    /\ Len(pictures) = 13
    /\ pagination = 6
    /\ Len(pages) = 3

\* C2: create_pagination returns floor(N/P) + 1 pages; every page but the
\* last holds P pictures and the last holds N mod P (none when P divides N).
PageCountAndSizes ==
    pc \in {"indexes", "indexed"} =>
        LET N == Len(pictures)
            P == pagination
        IN  /\ Len(pages) = (N \div P) + 1
            /\ \A k \in 1..(Len(pages) - 1) : Len(pages[k]) = P
            /\ Len(pages[Len(pages)]) = N % P

PageCountWitness ==
    /\ pc = "indexes"
    /\ Len(pictures) = 12
    /\ pagination = 6
    /\ Len(pages) = 3
    /\ pages[3] = <<>>

\* C3: the pagination record of the page of rank r among T pages has
\* current = r + 1 and total = T, a previous field exactly when r > 0 and
\* a next field exactly when r < T - 1.
PaginationRecordFields ==
    pc = "indexed" =>
        LET T == Len(pages)
        IN  \A r \in 0..(T - 1) :
                LET d == written[IndexName(r)].pagination
                IN  /\ d["current"] = r + 1
                    /\ d["total"] = T
                    /\ ("previous" \in DOMAIN d) <=> (r > 0)
                    /\ ("next" \in DOMAIN d) <=> (r < T - 1)
                    /\ T = 1 => DOMAIN d = {"current", "total"}

PaginationRecordWitness ==
    /\ pc = "indexed"
    /\ Len(pages) = 3
    /\ DOMAIN written[IndexName(0)].pagination = {"current", "total", "next"}
    /\ DOMAIN written[IndexName(1)].pagination
         = {"current", "total", "previous", "next"}
    /\ DOMAIN written[IndexName(2)].pagination = {"current", "total", "previous"}

\* C4: reduce_image writes a companion only for a source wider than
\* MAX_HORIZONTAL_SIZE; at that width or below nothing is written.
CompanionOnlyAboveLimit ==
    \A small \in DOMAIN wroteSmall :
        disk[wroteSmall[small].source].w > MAX_HORIZONTAL_SIZE

\* no call of reduce_image found a companion in place, and a scan that
\* follows a completed one leaves the companions that one left
RescanState ==
    /\ \A call \in reduceCalls : ~call.had
    /\ (pc = "scanned" /\ prevCount >= 0) => Companions(disk) = prevSmall

\* no step changes or removes a companion file
RescanStep ==
    \A path \in DOMAIN disk :
        IsCompanion(path) => path \in DOMAIN disk' /\ disk'[path] = disk[path]

\* C5: when the scan runs again on the directory a completed scan left,
\* reduce_image is not called for a source that has a companion, no
\* companion on disk (stale or not) is overwritten, and the companions after
\* the scan are those after the previous one.
RescanIsIdempotent == []RescanState /\ [][RescanStep]_vars

RescanWitness ==
    /\ pc = "scanned"
    /\ prevCount >= 2
    /\ {PathA, PathB, small_picture_path(PathA)} \subseteq DOMAIN disk
    /\ disk[small_picture_path(PathA)] # Resized(disk[PathA])
    /\ Saves(disk[PathA])
    /\ ~Saves(disk[PathB])
    /\ [path |-> PathB, had |-> FALSE] \in reduceCalls

\* C6: a scanned path that contains "small" gets no picture record and no
\* companion, so a companion is never taken for a source photo and every
\* scan of the directory returns as many records as the one before.
SmallPathsAreSkipped ==
    /\ \A i \in 1..Len(pictures) :
         ~Contains(SMALL_IMAGE_WORD, OUTPUT_DIR \o <<"/">> \o pictures[i].path)
    /\ \A call \in reduceCalls : ~Contains(SMALL_IMAGE_WORD, call.path)
    /\ \A small \in DOMAIN wroteSmall :
         ~Contains(SMALL_IMAGE_WORD, wroteSmall[small].source)
    /\ \A path \in DOMAIN disk :
         Contains(SMALL_IMAGE_WORD, path) =>
             small_picture_path(path) \notin DOMAIN disk
    /\ (pc = "scanned" /\ prevCount >= 0) => Len(pictures) = prevCount

SmallPathsWitness ==
    /\ pc = "scanned"
    /\ prevCount >= 2
    /\ PathS \in DOMAIN disk
    /\ HasExif(disk[PathS])
    /\ small_picture_path(PathA) \in DOMAIN prevSmall
    /\ small_picture_path(PathB) \in DOMAIN prevSmall

PictureFiles == {f \in DOMAIN written : written[f].kind = "picture"}
IndexFiles == {f \in DOMAIN written : written[f].kind = "index"}

\* C7: after a run that completes, every picture record is the content of
\* exactly one per-picture file (and every such file holds its own record),
\* is in the list rendered into all.html, and is listed by exactly one
\* index page.
EveryPictureRendered ==
    pc = "done" =>
        /\ Cardinality(PictureFiles) = Len(pictures)
        /\ \A i \in 1..Len(pictures) :
             /\ Cardinality({f \in PictureFiles :
                               written[f].picture = pictures[i]}) = 1
             /\ pictures[i] \in Elements(written[AllName].pictures)
             /\ Cardinality({f \in IndexFiles :
                               pictures[i] \in Elements(written[f].pictures)}) = 1

EveryPictureRenderedWitness ==
    /\ pc = "done"
    /\ Len(pictures) = 3
    /\ Cardinality(IndexFiles) = 4
    /\ Cardinality(PictureFiles) = 3

\* the capture time main reads back from a record
Chrono(picture) == ParseDate(picture.date)

RECURSIVE Chronos(_)
Chronos(pics) ==
    IF pics = <<>> THEN <<>> ELSE <<Chrono(pics[1])>> \o Chronos(Tail(pics))

RECURSIVE SortKeys(_)
SortKeys(pics) ==
    IF pics = <<>> THEN <<>> ELSE <<SortKey(pics[1])>> \o SortKeys(Tail(pics))

\* C8: after the sort the records are newest first, and on any two of them
\* the string order of the sort keys is the chronological order of the
\* capture times.
SortedNewestFirst ==
    LET when == Chronos(pictures)
        key == SortKeys(pictures)
    IN  /\ pc = "sorted" =>
             \A i, j \in 1..Len(pictures) :
                 i < j => ~ChronoLess(when[i], when[j])
        /\ \A i, j \in 1..Len(pictures) :
             StrLess(key[i], key[j]) <=> ChronoLess(when[i], when[j])

SortedWitness ==
    /\ pc = "sorted"
    /\ Len(pictures) = 3
    /\ ChronoLess(Chrono(pictures[3]), Chrono(pictures[2]))
    /\ ChronoLess(Chrono(pictures[2]), Chrono(pictures[1]))
    /\ pictures[1].html_path = <<"3", ".", "j", "p", "g">>
    /\ pictures[1].date = Stamp2 \o <<" ", "(", "U", "T", "C", ")">>
    /\ pictures[2].date = Stamp1 \o <<" ", "(", "U", "T", "C", ")">>

\* C9 as stated: n/1 is rendered "{n}s" and 1/d, for every d > 1, "1/{d}s".
ExposureAsClaimed ==
    pc = "formatted" =>
        /\ exif.d = 1 => cleaned = IntStr(exif.n) \o <<"s">>
        /\ (exif.n = 1 /\ exif.d > 1) =>
               cleaned = <<"1", "/">> \o IntStr(exif.d) \o <<"s">>

\* C9, amended: n/1 is rendered "{n}s"; 1/d is rendered as a reciprocal only
\* when it is below 0.3 (d >= 4): "1/{d}s" from an exact rational and
\* "1/{d}.0s" from a float; 1/2 and 1/3 are rendered in decimal ("0.5s").
ExposureRendering ==
    pc = "formatted" =>
        /\ exif.d = 1 => cleaned = IntStr(exif.n) \o <<"s">>
        /\ (exif.n = 1 /\ exif.d >= 4) =>
               cleaned = <<"1", "/">> \o IntStr(exif.d)
                            \o (IF exif.exact THEN <<>> ELSE <<".", "0">>) \o <<"s">>
        /\ (exif.n = 1 /\ exif.d \in {2, 3}) =>
               /\ SubSeq(cleaned, 1, 2) = <<"0", ".">>
               /\ cleaned[Len(cleaned)] = "s"
               /\ ~Contains(<<"/">>, cleaned)
        /\ (exif.n = 1 /\ exif.d = 2) => cleaned = <<"0", ".", "5", "s">>

ExposureRenderingWitness ==
    /\ pc = "formatted"
    /\ exif = [n |-> 1, d |-> 2, exact |-> TRUE]
    /\ cleaned = <<"0", ".", "5", "s">>

\* the run that raised is over, has written no page, and has left the
\* failing picture without record or companion and its companions in place
AbortState ==
    failed # <<>> =>
        /\ pc = "aborted"
        /\ written = <<>>
        /\ small_picture_path(failed) \notin DOMAIN wroteSmall
        /\ \A i \in 1..Len(pictures) :
             OUTPUT_DIR \o <<"/">> \o pictures[i].path # failed
        /\ \A small \in DOMAIN wroteSmall :
             small \in DOMAIN disk /\ disk[small] = wroteSmall[small].image

\* after the raise nothing happens but the start of another run
AbortStep ==
    pc = "aborted" =>
        /\ disk' = disk
        /\ \/ pc' = "aborted" /\ pictures' = pictures /\ todo' = todo
           \/ pc' = "scan" /\ pictures' = <<>> /\ failed' = <<>>

\* C10: when get_exif raises on a scanned picture the run ends there: the
\* picture gets no record and no companion, nothing more is analysed, no
\* html or feed file is written, and the companions the run had written
\* stay on disk as written.
FailureAbortsRun == []AbortState /\ [][AbortStep]_vars

FailureAbortsWitness ==
    /\ pc = "aborted"
    /\ failed = PathB
    /\ DOMAIN wroteSmall = {small_picture_path(PathA)}
    /\ PathC \in todo
    /\ HasExif(disk[PathC])

====
